---- MODULE Spec2Model ----
(***************************************************************************)
(* SPSC ring buffer (src/app/src/spsc_ring.c): one producer calling        *)
(* spsc_ring_push, one consumer calling spsc_ring_pop, and a main thread   *)
(* that constructs the ring before the two start and destroys it after     *)
(* both have stopped.  Every atomic load, atomic store and slot access of   *)
(* the source is one step, so every interleaving of the two threads'        *)
(* memory accesses is a behaviour of Spec.  Each access takes effect at its  *)
(* step, in program order; the memory order it carries in the source is     *)
(* noted at the step.  The locals of a call cease to exist when it returns  *)
(* (they are set back to 0 / NULL), and so does the content of the ring     *)
(* when its memory is freed.                                                *)
(***************************************************************************)
EXTENDS Integers, Sequences, FiniteSets, TLC

(* ------------------------------ bounds --------------------------------- *)

\* uint32_t is scaled down to CursorBits bits: cursors and the capacity
\* argument are unsigned CursorBits-bit integers, arithmetic is modulo Word.
CursorBits == 3

\* Largest capacity handed to spsc_ring_init.
MaxCapacity == 4

\* The producer pushes the values 1..MaxValue (0 is what calloc leaves in buf).
MaxValue == 2

\* How many times the main thread calls spsc_ring_destroy at most.
MaxDestroyCalls == 2

(* ------------------------- fixed-width arithmetic ------------------------ *)

RECURSIVE Pow2(_)
Pow2(n) == IF n = 0 THEN 1 ELSE 2 * Pow2(n - 1)

Word == Pow2(CursorBits)

\* Faulty variant: the sum wraps one early, at a modulus the capacity does
\* not divide.
Add32_OddModulus(a, b) == (a + b) % (Word - 1)

\* uint32_t addition and subtraction (wrap modulo Word).
Add32(a, b) == (a + b) % Word
Sub32(a, b) == (a - b + Word) % Word

\* The C operator & on two unsigned words, bit by bit.
RECURSIVE AndBits(_, _)
AndBits(a, b) ==
    IF a = 0 \/ b = 0 THEN 0
    ELSE (a % 2) * (b % 2) + 2 * AndBits(a \div 2, b \div 2)

\* The same, tabulated once over all pairs of words.
AndTable == [a \in 0 .. Word - 1 |-> [b \in 0 .. Word - 1 |-> AndBits(a, b)]]
BitAnd(a, b) == AndTable[a][b]

Capacities == 0 .. MaxCapacity
Values == 1 .. MaxValue

\* Pointer values.
NULL == "NULL"
RING == "ring"
OUTPTR == "&value"

\* Return values of push and pop.
RetOk == 0
RetFail == -1

\* pres / cres while a call is in progress or before the first call: a value
\* neither function returns.
NotReturned == RetOk + 1

\* What the caller's output variable holds when pop is called
\* (int value = -1 in the tests).
OutInit == -1

\* initArg before spsc_ring_init is called: no uint32_t value.
NoArg == Word

(* ------------------------------- state ---------------------------------- *)

VARIABLES
    mpc,        \* main thread: "init", "running" (producer and consumer at work),
                \* "finished" (no ring, or both threads stopped for good)
    handle,     \* the caller's spsc_ring_t *ring: NULL or RING
    ringMem,    \* the struct's allocation: "none", "allocated", "freed"
    bufMem,     \* the slot array's allocation: "none", "allocated", "freed"
    size,       \* ring->size
    mask,       \* ring->mask
    buf,        \* ring->buf: [0 .. size-1 -> int]
    head,       \* ring->head (consumer's cursor)
    tail,       \* ring->tail (producer's cursor)
    ppc,        \* producer's position inside spsc_ring_push
    p_fd,       \* push: argument fd
    p_h,        \* push: h loaded inside spsc_ring_is_full
    p_t,        \* push: local t
    pres,       \* push: last return value
    cpc,        \* consumer's position inside spsc_ring_pop
    c_out,      \* pop: argument out_fd (NULL or OUTPTR)
    c_h,        \* pop: local h
    c_eh,       \* pop: h loaded inside spsc_ring_is_empty
    cres,       \* pop: last return value
    out,        \* the caller's int value, whose address out_fd is when not NULL
    pending,    \* history: values accepted by push and not yet popped, oldest first
    initArg,    \* history: the capacity handed to spsc_ring_init (NoArg before the call)
    destroyLog  \* history: the arguments of the spsc_ring_destroy calls made so far

ringVars == <<size, mask, buf, head, tail>>
heapVars == <<ringMem, bufMem>>
prodVars == <<ppc, p_fd, p_h, p_t, pres>>
consVars == <<cpc, c_out, c_h, c_eh, cres, out>>
mainVars == <<mpc, handle, initArg, destroyLog>>
vars == <<mpc, handle, ringMem, bufMem, size, mask, buf, head, tail,
          ppc, p_fd, p_h, p_t, pres, cpc, c_out, c_h, c_eh, cres, out,
          pending, initArg, destroyLog>>

Init ==
    /\ mpc = "init"
    /\ handle = NULL
    /\ ringMem = "none"
    /\ bufMem = "none"
    /\ size = 0
    /\ mask = 0
    /\ buf = <<>>
    /\ head = 0
    /\ tail = 0
    /\ ppc = "idle"
    /\ p_fd = 0
    /\ p_h = 0
    /\ p_t = 0
    /\ pres = NotReturned
    /\ cpc = "idle"
    /\ c_out = NULL
    /\ c_h = 0
    /\ c_eh = 0
    /\ cres = NotReturned
    /\ out = OutInit
    /\ pending = <<>>
    /\ initArg = NoArg
    /\ destroyLog = <<>>

(* --------------------------- spsc_ring_init ------------------------------ *)

\* Faulty variant: the capacity == 0 test is missing.
InvalidCapacity_NoZeroTest(capacity) ==
    BitAnd(capacity, Sub32(capacity, 1)) # 0

\* The test of line 89: capacity is rejected.
InvalidCapacity(capacity) ==
    (capacity = 0) \/ (BitAnd(capacity, Sub32(capacity, 1)) # 0)

\* spsc_ring_init(capacity); ringOk and bufOk are what the two calloc calls
\* return (TRUE: memory, FALSE: a null pointer).
spsc_ring_init(capacity, ringOk, bufOk) ==
    /\ mpc = "init"
    /\ initArg' = capacity
    /\ IF InvalidCapacity(capacity) \/ ~ringOk
       THEN \* return NULL (nothing, or nothing more, was allocated)
            /\ mpc' = "finished"
            /\ UNCHANGED <<handle, heapVars, ringVars>>
       ELSE IF ~bufOk
       THEN \* free(ring); return NULL
            /\ mpc' = "finished"
            /\ ringMem' = "freed"
            /\ UNCHANGED <<handle, bufMem, ringVars>>
       ELSE /\ mpc' = "running"
            /\ handle' = RING
            /\ ringMem' = "allocated"
            /\ bufMem' = "allocated"
            /\ size' = capacity
            /\ mask' = Sub32(capacity, 1)
            /\ buf' = [i \in 0 .. capacity - 1 |-> 0]
            /\ head' = 0
            /\ tail' = 0
    /\ UNCHANGED <<prodVars, consVars, pending, destroyLog>>

Construct ==
    \E capacity \in Capacities, ringOk \in BOOLEAN, bufOk \in BOOLEAN :
        spsc_ring_init(capacity, ringOk, bufOk)

(* ---------------- spsc_ring_is_empty / spsc_ring_is_full ----------------- *)

\* Faulty variant: the comparison of spsc_ring_is_full pasted into
\* spsc_ring_is_empty.
is_empty_FullTest(h, t) == BitAnd(Add32(t, 1), mask) = BitAnd(h, mask)

\* The value spsc_ring_is_empty returns for the loaded h and t.
spsc_ring_is_empty(h, t) == BitAnd(h, mask) = BitAnd(t, mask)

\* Faulty variant: head and tail swapped in the comparison.
is_full_Swapped(h, t) == BitAnd(Add32(h, 1), mask) = BitAnd(t, mask)

\* Faulty variant: t + 1 is compared with h without wrapping either.
is_full_Unmasked(h, t) == Add32(t, 1) = h

\* Faulty variant: full is reported one element early as well.
is_full_OneEarly(h, t) ==
    \/ BitAnd(Add32(t, 1), mask) = BitAnd(h, mask)
    \/ BitAnd(Add32(t, 2), mask) = BitAnd(h, mask)

\* The value spsc_ring_is_full returns for the loaded h and t.
spsc_ring_is_full(h, t) == BitAnd(Add32(t, 1), mask) = BitAnd(h, mask)

(* --------------------------- spsc_ring_push ------------------------------ *)

\* push(NULL, fd): the ring == NULL branch.
PushNullRing(fd) ==
    /\ mpc = "finished"
    /\ handle = NULL
    /\ ppc = "idle"
    /\ pres' = RetFail
    /\ UNCHANGED <<mainVars, heapVars, ringVars, ppc, p_fd, p_h, p_t, consVars, pending>>

\* The producer calls spsc_ring_push(ring, fd) and enters spsc_ring_is_full.
PushCall(fd) ==
    /\ mpc = "running"
    /\ handle = RING
    /\ ppc = "idle"
    /\ ppc' = "full_load_head"
    /\ p_fd' = fd
    /\ pres' = NotReturned
    /\ UNCHANGED <<mainVars, heapVars, ringVars, p_h, p_t, consVars, pending>>

\* spsc_ring_is_full: h = load(head, memory_order_relaxed).
PushIsFullLoadHead ==
    /\ ppc = "full_load_head"
    /\ p_h' = head
    /\ ppc' = "full_load_tail"
    /\ UNCHANGED <<mainVars, heapVars, ringVars, p_fd, p_t, pres, consVars, pending>>

\* Faulty variant: the slot is written before the outcome of the fullness
\* check is acted on, so also when the ring is full.
PushIsFullLoadTail_WritesSlot ==
    /\ ppc = "full_load_tail"
    /\ buf' = [buf EXCEPT ![BitAnd(tail, mask)] = p_fd]
    /\ IF spsc_ring_is_full(p_h, tail)
       THEN /\ ppc' = "idle"
            /\ pres' = RetFail
            /\ p_fd' = 0
       ELSE /\ ppc' = "load_tail"
            /\ UNCHANGED <<pres, p_fd>>
    /\ p_h' = 0
    /\ UNCHANGED <<mainVars, heapVars, size, mask, head, tail, p_t, consVars, pending>>

\* Faulty variant: a push that finds the ring full drops the oldest value by
\* advancing head itself, and goes on.
PushIsFullLoadTail_DropsOldest ==
    /\ ppc = "full_load_tail"
    /\ IF spsc_ring_is_full(p_h, tail)
         THEN /\ head' = Add32(head, 1)
              /\ pending' = IF pending = <<>> THEN pending ELSE Tail(pending)
         ELSE UNCHANGED <<head, pending>>
    /\ ppc' = "load_tail"
    /\ p_h' = 0
    /\ UNCHANGED <<mainVars, heapVars, size, mask, buf, tail, p_fd, p_t, pres, consVars>>

\* Faulty variant: a push that finds the ring full goes back to load head
\* again instead of returning (it waits for the consumer).
PushIsFullLoadTail_Spins ==
    /\ ppc = "full_load_tail"
    /\ ppc' = IF spsc_ring_is_full(p_h, tail) THEN "full_load_head" ELSE "load_tail"
    /\ p_h' = 0
    /\ UNCHANGED <<mainVars, heapVars, ringVars, p_fd, p_t, pres, consVars, pending>>

\* spsc_ring_is_full: t = load(tail, memory_order_acquire), the comparison,
\* and push's branch on it.
PushIsFullLoadTail ==
    /\ ppc = "full_load_tail"
    /\ IF spsc_ring_is_full(p_h, tail)
       THEN /\ ppc' = "idle"
            /\ pres' = RetFail
            /\ p_fd' = 0
       ELSE /\ ppc' = "load_tail"
            /\ UNCHANGED <<pres, p_fd>>
    /\ p_h' = 0
    /\ UNCHANGED <<mainVars, heapVars, ringVars, p_t, consVars, pending>>

\* t = load(tail, memory_order_relaxed).
PushLoadTail ==
    /\ ppc = "load_tail"
    /\ p_t' = tail
    /\ ppc' = "write_slot"
    /\ UNCHANGED <<mainVars, heapVars, ringVars, p_fd, p_h, pres, consVars, pending>>

\* ring->buf[t & ring->mask] = fd.
PushWriteSlot ==
    /\ ppc = "write_slot"
    /\ buf' = [buf EXCEPT ![BitAnd(p_t, mask)] = p_fd]
    /\ ppc' = "store_tail"
    /\ UNCHANGED <<mainVars, heapVars, size, mask, head, tail, p_fd, p_h, p_t, pres,
                   consVars, pending>>

\* store(tail, t + 1, memory_order_release); return 0.
PushStoreTail ==
    /\ ppc = "store_tail"
    /\ tail' = Add32(p_t, 1)
    /\ ppc' = "idle"
    /\ pres' = RetOk
    /\ pending' = Append(pending, p_fd)
    /\ p_fd' = 0
    /\ p_t' = 0
    /\ UNCHANGED <<mainVars, heapVars, size, mask, buf, head, p_h, consVars>>

\* The steps of a push after its entry.
PushStep ==
    \/ PushIsFullLoadHead
    \/ PushIsFullLoadTail
    \/ PushLoadTail
    \/ PushWriteSlot
    \/ PushStoreTail

\* Faulty variant: push publishes tail first and writes the slot afterwards.
Producer_PublishesFirst ==
    \/ \E fd \in Values : PushNullRing(fd)
    \/ \E fd \in Values : PushCall(fd)
    \/ PushIsFullLoadHead
    \/ PushIsFullLoadTail
    \/ PushLoadTail
    \/ /\ ppc = "write_slot"
       /\ tail' = Add32(p_t, 1)
       /\ pending' = Append(pending, p_fd)
       /\ ppc' = "store_tail"
       /\ UNCHANGED <<mainVars, heapVars, size, mask, buf, head, p_fd, p_h, p_t, pres,
                      consVars>>
    \/ /\ ppc = "store_tail"
       /\ buf' = [buf EXCEPT ![BitAnd(p_t, mask)] = p_fd]
       /\ ppc' = "idle"
       /\ pres' = RetOk
       /\ p_fd' = 0
       /\ p_t' = 0
       /\ UNCHANGED <<mainVars, heapVars, size, mask, head, tail, p_h, consVars, pending>>

Producer ==
    \/ \E fd \in Values : PushNullRing(fd)
    \/ \E fd \in Values : PushCall(fd)
    \/ PushIsFullLoadHead
    \/ PushIsFullLoadTail
    \/ PushLoadTail
    \/ PushWriteSlot
    \/ PushStoreTail

(* ---------------------------- spsc_ring_pop ------------------------------ *)

\* The consumer declares a fresh int value = -1 and calls
\* spsc_ring_pop(ring, out_fd), out_fd being &value or NULL.
PopCall(out_fd) ==
    /\ mpc = "running"
    /\ handle = RING
    /\ cpc = "idle"
    /\ cpc' = "load_head"
    /\ c_out' = out_fd
    /\ cres' = NotReturned
    /\ out' = OutInit
    /\ UNCHANGED <<mainVars, heapVars, ringVars, prodVars, c_h, c_eh, pending>>

\* Faulty variant: the slot at h is copied to *out_fd before the emptiness
\* check.
PopLoadHead_ReadsSlot ==
    /\ cpc = "load_head"
    /\ c_h' = head
    /\ out' = IF c_out # NULL THEN buf[BitAnd(head, mask)] ELSE out
    /\ cpc' = "empty_load_head"
    /\ UNCHANGED <<mainVars, heapVars, ringVars, prodVars, c_out, c_eh, cres, pending>>

\* h = load(head, memory_order_relaxed).
PopLoadHead ==
    /\ cpc = "load_head"
    /\ c_h' = head
    /\ cpc' = "empty_load_head"
    /\ UNCHANGED <<mainVars, heapVars, ringVars, prodVars, c_out, c_eh, cres, out, pending>>

\* spsc_ring_is_empty: h = load(head, memory_order_relaxed).
PopIsEmptyLoadHead ==
    /\ cpc = "empty_load_head"
    /\ c_eh' = head
    /\ cpc' = "empty_load_tail"
    /\ UNCHANGED <<mainVars, heapVars, ringVars, prodVars, c_out, c_h, cres, out, pending>>

\* spsc_ring_is_empty: t = load(tail, memory_order_acquire), the comparison,
\* pop's branch on it and the test of out_fd that follows.
PopIsEmptyLoadTail ==
    /\ cpc = "empty_load_tail"
    /\ IF spsc_ring_is_empty(c_eh, tail)
       THEN /\ cpc' = "idle"
            /\ cres' = RetFail
            /\ c_out' = NULL
            /\ c_h' = 0
       ELSE /\ cpc' = IF c_out # NULL THEN "read_slot" ELSE "store_head"
            /\ UNCHANGED <<cres, c_out, c_h>>
    /\ c_eh' = 0
    /\ UNCHANGED <<mainVars, heapVars, ringVars, prodVars, out, pending>>

\* Faulty variant: reads the slot after the one at h.
PopReadSlot_NextSlot ==
    /\ cpc = "read_slot"
    /\ out' = buf[BitAnd(Add32(c_h, 1), mask)]
    /\ cpc' = "store_head"
    /\ UNCHANGED <<mainVars, heapVars, ringVars, prodVars, c_out, c_h, c_eh, cres, pending>>

\* Faulty variant: pop clears the slot it has read.
PopReadSlot_ClearsSlot ==
    /\ cpc = "read_slot"
    /\ out' = buf[BitAnd(c_h, mask)]
    /\ buf' = [buf EXCEPT ![BitAnd(c_h, mask)] = 0]
    /\ cpc' = "store_head"
    /\ UNCHANGED <<mainVars, heapVars, size, mask, head, tail, prodVars, c_out, c_h,
                   c_eh, cres, pending>>

\* *out_fd = ring->buf[h & ring->mask].
PopReadSlot ==
    /\ cpc = "read_slot"
    /\ out' = buf[BitAnd(c_h, mask)]
    /\ cpc' = "store_head"
    /\ UNCHANGED <<mainVars, heapVars, ringVars, prodVars, c_out, c_h, c_eh, cres, pending>>

\* Faulty variant: head is advanced only when out_fd is not NULL.
PopStoreHead_OnlyWithOutput ==
    /\ cpc = "store_head"
    /\ head' = IF c_out # NULL THEN Add32(c_h, 1) ELSE head
    /\ cpc' = "idle"
    /\ cres' = RetOk
    /\ pending' = IF pending = <<>> \/ c_out = NULL THEN pending ELSE Tail(pending)
    /\ c_out' = NULL
    /\ c_h' = 0
    /\ UNCHANGED <<mainVars, heapVars, size, mask, buf, tail, prodVars, c_eh, out>>

\* store(head, h + 1, memory_order_release); return 0.
PopStoreHead ==
    /\ cpc = "store_head"
    /\ head' = Add32(c_h, 1)
    /\ cpc' = "idle"
    /\ cres' = RetOk
    /\ pending' = IF pending = <<>> THEN pending ELSE Tail(pending)
    /\ c_out' = NULL
    /\ c_h' = 0
    /\ UNCHANGED <<mainVars, heapVars, size, mask, buf, tail, prodVars, c_eh, out>>

\* The steps of a pop after its entry.
PopStep ==
    \/ PopLoadHead
    \/ PopIsEmptyLoadHead
    \/ PopIsEmptyLoadTail
    \/ PopReadSlot
    \/ PopStoreHead

Consumer ==
    \/ \E out_fd \in {NULL, OUTPTR} : PopCall(out_fd)
    \/ PopLoadHead
    \/ PopIsEmptyLoadHead
    \/ PopIsEmptyLoadTail
    \/ PopReadSlot
    \/ PopStoreHead

(* ------------------------------ lifecycle -------------------------------- *)

\* The producer and the consumer stop for good (both outside push and pop);
\* only after this may the main thread destroy the ring.
StopThreads ==
    /\ mpc = "running"
    /\ ppc = "idle"
    /\ cpc = "idle"
    /\ mpc' = "finished"
    /\ UNCHANGED <<handle, initArg, destroyLog, heapVars, ringVars, prodVars, consVars, pending>>

(* -------------------------- spsc_ring_destroy ---------------------------- *)

\* The two pointers spsc_ring_destroy can be handed: a null spsc_ring_t **,
\* or the address of the caller's handle.
DestroyArgs == {NULL, "&ring"}

\* free(p) on an allocation in state m; freeing what is not (or no longer)
\* allocated corrupts the heap.
Free(m) == IF m = "allocated" THEN "freed" ELSE "corrupt"

\* Faulty variant: the caller's handle is not cleared.
spsc_ring_destroy_NoClear(arg) ==
    /\ mpc = "finished"
    /\ Len(destroyLog) < MaxDestroyCalls
    /\ destroyLog' = Append(destroyLog, arg)
    /\ IF arg # NULL /\ handle # NULL
       THEN /\ bufMem' = Free(bufMem)
            /\ ringMem' = Free(ringMem)
            /\ UNCHANGED <<handle, ringVars, pending>>
       ELSE UNCHANGED <<handle, heapVars, ringVars, pending>>
    /\ UNCHANGED <<mpc, initArg, prodVars, consVars>>

\* spsc_ring_destroy(arg).
spsc_ring_destroy(arg) ==
    /\ mpc = "finished"
    /\ Len(destroyLog) < MaxDestroyCalls
    /\ destroyLog' = Append(destroyLog, arg)
    /\ IF arg # NULL /\ handle # NULL
       THEN \* free((*ring)->buf); free(*ring); *ring = NULL
            /\ bufMem' = Free(bufMem)
            /\ ringMem' = Free(ringMem)
            /\ handle' = NULL
            /\ size' = 0
            /\ mask' = 0
            /\ buf' = <<>>
            /\ head' = 0
            /\ tail' = 0
            /\ pending' = <<>>
       ELSE UNCHANGED <<handle, heapVars, ringVars, pending>>
    /\ UNCHANGED <<mpc, initArg, prodVars, consVars>>

Destroy == \E arg \in DestroyArgs : spsc_ring_destroy(arg)

(* ------------------------------ behaviour -------------------------------- *)

Next == Construct \/ Producer \/ Consumer \/ StopThreads \/ Destroy

Spec == Init /\ [][Next]_vars

(* ---------------------------- state predicates --------------------------- *)

Live == handle = RING

\* What spsc_ring_is_empty / spsc_ring_is_full return when called in this state.
IsEmpty == spsc_ring_is_empty(head, tail)
IsFull == spsc_ring_is_full(head, tail)

\* Neither a push nor a pop is in progress.
Quiescent == ppc = "idle" /\ cpc = "idle"

\* The unsigned difference tail - head.
Occupancy == Sub32(tail, head)

TypeOK ==
    /\ mpc \in {"init", "running", "finished"}
    /\ handle \in {NULL, RING}
    /\ size \in 0 .. MaxCapacity
    /\ mask \in 0 .. Word - 1
    /\ head \in 0 .. Word - 1
    /\ tail \in 0 .. Word - 1
    /\ DOMAIN buf = 0 .. size - 1
    /\ \A i \in DOMAIN buf : buf[i] \in 0 .. MaxValue
    /\ pres \in {RetOk, RetFail, NotReturned}
    /\ cres \in {RetOk, RetFail, NotReturned}
    /\ out \in Values \cup {OutInit}
    /\ pending \in Seq(Values)

(* -------------------------------- claims --------------------------------- *)

\* C1 - FIFO under concurrency.  pending is the sequence of accepted values
\* not yet popped: spsc_ring_push appends to it when it publishes tail,
\* spsc_ring_pop removes its first element when it publishes head.  The
\* values delivered by successful pops form a prefix of the values accepted
\* by successful pushes exactly when each successful pop consumes the first
\* element of pending and, if it has an output location, has stored that
\* element there; and nothing is dropped or duplicated when pending has as
\* many elements as the cursors are apart.  In every reachable state, in
\* every interleaving, however often the slot index and the cursors wrap:
\* a pop that has passed its emptiness check finds pending non-empty and
\* holds the current head, and one about to publish head has delivered the
\* first element of pending.
C1_FifoOrder ==
    Live =>
        /\ Len(pending) = Occupancy
        /\ cpc \in {"read_slot", "store_head"} => (pending # <<>> /\ c_h = head)
        /\ (cpc = "store_head" /\ c_out # NULL) => out = Head(pending)

\* C1 witness: capacity 4, the tail cursor has overflowed the word while
\* head has not (so the slot index has wrapped as well), three values of
\* which the first two differ are pending, and a pop has just delivered the
\* oldest.
C1_Witness ==
    /\ Live /\ size = 4
    /\ tail < head
    /\ Len(pending) = 3 /\ pending[1] # pending[2]
    /\ cpc = "store_head" /\ c_out # NULL /\ out = pending[1]

\* C2 - occupancy invariant: in every reachable state of a ring of capacity
\* size, the middle of a push or pop included, the unsigned difference
\* tail - head is one of 0 .. size - 1.
C2_Occupancy == Live => Occupancy \in 0 .. size - 1

\* C2 witness: capacity 4 holding 3 values across a cursor overflow while a
\* push and a pop are both in progress.
C2_Witness ==
    /\ Live /\ size = 4 /\ Occupancy = 3 /\ tail < head
    /\ ppc # "idle" /\ cpc # "idle"

\* C3 - full detection.  With no push in progress, spsc_ring_is_full
\* returns true exactly when size - 1 accepted values are unpopped (after k
\* pushes and no pop: exactly when k = size - 1).  While it returns true no
\* push is past its fullness check, so no slot is being written, and a push
\* that is at its fullness check is about to return -1.
C3_FullDetection ==
    Live =>
        /\ ppc = "idle" => (IsFull <=> Len(pending) = size - 1)
        /\ (head = 0 /\ ppc = "idle" /\ tail < size - 1) => ~IsFull
        /\ IsFull => ppc \in {"idle", "full_load_head", "full_load_tail"}
        /\ (IsFull /\ ppc = "full_load_tail") => spsc_ring_is_full(p_h, tail)

\* C3 witness: a ring of capacity 4 that has seen 3 pushes and no pop
\* reports full, the 4th push has returned -1, and the 3 values are stored.
C3_Witness ==
    /\ Live /\ size = 4 /\ head = 0 /\ tail = 3 /\ cres = NotReturned
    /\ IsFull /\ ppc = "idle" /\ pres = RetFail
    /\ \A i \in 1 .. 3 : buf[i - 1] = pending[i]

\* C4 - empty detection: in every quiescent state spsc_ring_is_empty returns
\* true exactly when as many values were popped as were pushed (nothing is
\* pending); in particular right after construction.
C4_EmptyDetection ==
    (Live /\ Quiescent) => (IsEmpty <=> pending = <<>>)

\* C4 witness: one value was pushed and popped again, and the ring reports
\* empty once more.
C4_Witness ==
    /\ Live /\ Quiescent /\ size = 4
    /\ head = 1 /\ tail = 1 /\ pres = RetOk /\ cres = RetOk
    /\ IsEmpty

\* C5 - push on a full ring fails without side effect.  Up to and including
\* its fullness check a push changes neither cursor, no slot and not the
\* sequence of accepted values; and a push whose fullness check finds the
\* ring full returns -1 at that step, so a rejected value is stored nowhere
\* and can reach no later pop.
C5_PushFullNoEffect ==
    [][ (ppc \in {"idle", "full_load_head", "full_load_tail"} /\ ppc' # ppc) =>
            /\ UNCHANGED <<head, tail, buf, pending>>
            /\ (IsFull /\ ppc = "full_load_tail") =>
                    (ppc' = "idle" /\ pres' = RetFail) ]_vars

\* C5 witness: a ring of capacity 4 that has already been popped from holds
\* 3 values, and the latest push has returned -1.
C5_Witness ==
    /\ Live /\ size = 4 /\ Occupancy = 3 /\ head # 0
    /\ IsFull /\ ppc = "idle" /\ pres = RetFail

\* C6 - pop on an empty ring fails without side effect.  Up to and including
\* its emptiness check a pop changes neither cursor and no slot, and after
\* its entry it leaves the caller's output variable alone; a pop whose
\* emptiness check finds the ring empty returns -1 at that step, the output
\* variable still holds what it held at the call, and the ring still
\* reports empty.
C6_PopEmptyNoEffect ==
    [][ (cpc \in {"idle", "load_head", "empty_load_head", "empty_load_tail"}
         /\ cpc' # cpc) =>
            /\ UNCHANGED <<head, tail, buf, pending>>
            /\ cpc # "idle" => out' = out
            /\ (IsEmpty /\ cpc = "empty_load_tail") =>
                    (cpc' = "idle" /\ cres' = RetFail /\ out' = OutInit /\ IsEmpty') ]_vars

\* C6 witness: a ring of capacity 4, drained after use so that the slot at
\* head holds an old value; a pop with an output location has returned -1
\* and the output variable is as it was.
C6_Witness ==
    /\ Live /\ size = 4 /\ IsEmpty /\ head # 0
    /\ buf[BitAnd(head, mask)] # 0
    /\ cpc = "idle" /\ cres = RetFail /\ out = OutInit

\* n is a power of two that a word can hold.
IsPowerOfTwo(n) == \E k \in 0 .. CursorBits - 1 : n = Pow2(k)

\* The state spsc_ring_init leaves: it has returned and nothing else was called.
JustConstructed ==
    /\ mpc # "init" /\ destroyLog = <<>>
    /\ Quiescent /\ pres = NotReturned /\ cres = NotReturned

\* What spsc_ring_init(initArg) returns on success.
FreshRing ==
    /\ handle = RING /\ ringMem = "allocated" /\ bufMem = "allocated"
    /\ size = initArg /\ mask = initArg - 1
    /\ head = 0 /\ tail = 0 /\ IsEmpty

\* C7 as stated - construct validation: no instance when capacity is 0 or not
\* a power of two, and otherwise a ring with size = capacity,
\* mask = capacity - 1 and both cursors 0 (is_empty true).
C7_ConstructAsStated ==
    JustConstructed =>
        IF IsPowerOfTwo(initArg) THEN FreshRing ELSE handle = NULL

\* C7 amended - no instance (and nothing allocated) when capacity is 0 or
\* not a power of two; otherwise either a ring with size = capacity,
\* mask = capacity - 1 and both cursors 0 (is_empty true) or, when one of the
\* two allocations fails, no instance and nothing left allocated.
C7_Construct ==
    JustConstructed =>
        /\ ~IsPowerOfTwo(initArg) =>
                (handle = NULL /\ ringMem = "none" /\ bufMem = "none")
        /\ IsPowerOfTwo(initArg) =>
                \/ FreshRing
                \/ (handle = NULL /\ ringMem \in {"none", "freed"} /\ bufMem = "none")

\* C7 witness: spsc_ring_init(4) has returned a ring.
C7_Witness ==
    JustConstructed /\ initArg = 4 /\ FreshRing /\ mask = 3 /\ DOMAIN buf = 0 .. 3

\* C8 - full and empty are distinguishable: for every ring spsc_ring_init
\* returns, in no reachable state do spsc_ring_is_empty and
\* spsc_ring_is_full both return true.
C8_FullEmptyDistinct == Live => ~(IsEmpty /\ IsFull)

\* C9 - pop with out_fd = NULL.  On a ring holding a value its emptiness
\* check passes; it then returns 0, advances head by exactly one, consumes
\* the oldest value and touches neither the output variable, tail nor any
\* slot; and the slot the next pop reads holds the value accepted right
\* after the discarded one.
C9_PopDiscard ==
    [][ (c_out = NULL /\ cpc' # cpc) =>
            /\ (cpc = "empty_load_tail" /\ pending # <<>>) => cpc' = "store_head"
            /\ cpc = "store_head" =>
                    /\ cpc' = "idle" /\ cres' = RetOk
                    /\ head' = Add32(head, 1)
                    /\ pending # <<>> /\ pending' = Tail(pending)
                    /\ UNCHANGED <<out, tail, buf>>
                    /\ Len(pending) >= 2 => buf[BitAnd(head', mask)] = pending[2] ]_vars

\* C9 witness: a pop without output location has returned 0 on a ring of
\* capacity 4 (the output variable was not written), and the value that
\* followed the discarded one is now the one at head.
C9_Witness ==
    /\ Live /\ size = 4 /\ head # 0
    /\ cpc = "idle" /\ cres = RetOk /\ out = OutInit
    /\ pending # <<>> /\ buf[BitAnd(head, mask)] = pending[1]

\* C10 - destroy is safe and idempotent.  spsc_ring_destroy(&ring) on a live
\* handle frees the slot array and the struct and leaves the handle NULL;
\* spsc_ring_destroy(NULL) and spsc_ring_destroy(&ring) on a NULL handle
\* change nothing; so after spsc_ring_destroy(&ring) the handle is NULL
\* whatever it was, a second call is one of the calls that change nothing,
\* and nothing is freed twice.
C10_DestroySafe ==
    [][ destroyLog' # destroyLog =>
            LET arg == destroyLog'[Len(destroyLog')] IN
            /\ (arg # NULL /\ handle # NULL) =>
                    (handle' = NULL /\ ringMem' = "freed" /\ bufMem' = "freed")
            /\ (arg = NULL \/ handle = NULL) =>
                    UNCHANGED <<handle, heapVars, ringVars, pending>>
            /\ arg # NULL => handle' = NULL ]_vars

\* C10 witness: spsc_ring_destroy(&ring) was called twice on a handle that
\* was live; the handle is NULL and each allocation was freed once.
C10_Witness ==
    /\ destroyLog = <<"&ring", "&ring">>
    /\ initArg = 4
    /\ handle = NULL /\ ringMem = "freed" /\ bufMem = "freed"

\* How far a push / a pop has got: the number of its steps behind it.
PushRank(pc) ==
    CASE pc = "idle" -> 0
      [] pc = "full_load_head" -> 1
      [] pc = "full_load_tail" -> 2
      [] pc = "load_tail" -> 3
      [] pc = "write_slot" -> 4
      [] pc = "store_tail" -> 5

PopRank(pc) ==
    CASE pc = "idle" -> 0
      [] pc = "load_head" -> 1
      [] pc = "empty_load_head" -> 2
      [] pc = "empty_load_tail" -> 3
      [] pc = "read_slot" -> 4
      [] pc = "store_head" -> 5

\* C11 - non-blocking termination.  A call in progress can always take its
\* next step, whatever state the other thread is in (so also when the other
\* thread has stopped in the middle of its own call), and every step of a
\* call either returns or moves it strictly forward through its at most
\* five positions: no step waits, none goes back.
C11_NonBlocking ==
    [][ /\ ppc # "idle" => ENABLED PushStep
        /\ cpc # "idle" => ENABLED PopStep
        /\ ppc' # ppc => (ppc' = "idle" \/ PushRank(ppc') > PushRank(ppc))
        /\ cpc' # cpc => (cpc' = "idle" \/ PopRank(cpc') > PopRank(cpc)) ]_vars

\* C11 witness: the consumer is stopped inside a pop, just before publishing
\* head, the ring of capacity 4 is still full, and a push has returned -1
\* rather than wait.
C11_Witness ==
    /\ Live /\ size = 4 /\ IsFull
    /\ cpc = "store_head"
    /\ ppc = "idle" /\ pres = RetFail

\* No pop has been called yet.
NoPopYet == cpc = "idle" /\ cres = NotReturned /\ head = 0

\* C12 as stated (file header and the comment on spsc_ring_init) - a ring of
\* capacity N holds N elements: starting from the empty ring, with no pop,
\* no push fails while fewer than N values have been accepted.
C12_HoldsCapacityAsStated ==
    (Live /\ NoPopYet /\ ppc = "idle" /\ tail < size) => pres # RetFail

\* What the code does instead of C12 (the comment on spsc_ring_push, "we
\* sacrifice one slot") - a ring of capacity N holds N - 1 elements: from the
\* empty ring, with no pop, no push fails while fewer than N - 1 values have
\* been accepted, never more than N - 1 are accepted, and a push that reaches
\* its fullness check at N - 1 accepted values is about to fail.
C12_HoldsCapacityLessOne ==
    (Live /\ NoPopYet) =>
        /\ tail <= size - 1
        /\ (ppc = "idle" /\ tail < size - 1) => pres # RetFail
        /\ (ppc = "full_load_tail" /\ tail = size - 1) => spsc_ring_is_full(p_h, tail)

\* C12 witness: three pushes into a fresh ring of capacity 4 have all
\* returned 0 and no pop was called.
C12_Witness ==
    /\ Live /\ NoPopYet /\ size = 4
    /\ tail = 3 /\ ppc = "idle" /\ pres = RetOk

(* ----------------------------- memory orders ----------------------------- *)

RELAXED == "memory_order_relaxed"
ACQUIRE == "memory_order_acquire"
RELEASE == "memory_order_release"

\* The atomic accesses of the cursors, each with the order the code passes.
IsFullHeadLoad  == [cursor |-> "head", kind |-> "load",  order |-> RELAXED]
IsFullTailLoad  == [cursor |-> "tail", kind |-> "load",  order |-> ACQUIRE]
PushTailLoad    == [cursor |-> "tail", kind |-> "load",  order |-> RELAXED]
PushTailStore   == [cursor |-> "tail", kind |-> "store", order |-> RELEASE]
PopHeadLoad     == [cursor |-> "head", kind |-> "load",  order |-> RELAXED]
IsEmptyHeadLoad == [cursor |-> "head", kind |-> "load",  order |-> RELAXED]
IsEmptyTailLoad == [cursor |-> "tail", kind |-> "load",  order |-> ACQUIRE]
PopHeadStore    == [cursor |-> "head", kind |-> "store", order |-> RELEASE]

\* The access each position of a push / a pop is about to make.
PushAccess ==
    [full_load_head |-> IsFullHeadLoad,
     full_load_tail |-> IsFullTailLoad,
     load_tail      |-> PushTailLoad,
     store_tail     |-> PushTailStore]

PopAccess ==
    [load_head       |-> PopHeadLoad,
     empty_load_head |-> IsEmptyHeadLoad,
     empty_load_tail |-> IsEmptyTailLoad,
     store_head      |-> PopHeadStore]

\* The order the discipline of C13 asks of an access by the thread that owns
\* the cursor `own`.
DisciplineOrder(a, own) ==
    IF a.kind = "store" THEN RELEASE
    ELSE IF a.cursor = own THEN RELAXED ELSE ACQUIRE

\* Some load of `cursor` in the table is an acquire load.
AcquiredIn(table, cursor) ==
    \E pc \in DOMAIN table :
        /\ table[pc].kind = "load"
        /\ table[pc].cursor = cursor
        /\ table[pc].order = ACQUIRE

\* C13 - acquire/release pairing.  Whenever a thread is about to access a
\* cursor, a load of the other thread's cursor is an acquire load, a load of
\* its own cursor is relaxed and a store is a release store; and a cursor
\* about to be published by a release store is loaded with acquire by the
\* other thread.
C13_AcquireReleasePairing ==
    /\ ppc \in DOMAIN PushAccess =>
            PushAccess[ppc].order = DisciplineOrder(PushAccess[ppc], "tail")
    /\ cpc \in DOMAIN PopAccess =>
            PopAccess[cpc].order = DisciplineOrder(PopAccess[cpc], "head")
    /\ ppc = "store_tail" => AcquiredIn(PopAccess, "tail")
    /\ cpc = "store_head" => AcquiredIn(PushAccess, "head")

(* ------------------------- slots and cursors ----------------------------- *)

\* The slot index of the i-th oldest unpopped value (i from 0).
PendingSlot(i) == BitAnd(Add32(head, i), mask)

\* C14 - slot exclusivity.  When the producer is about to write its slot and
\* the consumer is about to read its slot, the two slot indices differ; and
\* the slot the producer is about to write is none of the slots that hold a
\* published value not yet popped.
C14_SlotExclusive ==
    (Live /\ ppc = "write_slot") =>
        /\ cpc = "read_slot" => BitAnd(p_t, mask) # BitAnd(c_h, mask)
        /\ \A i \in 0 .. Len(pending) - 1 : PendingSlot(i) # BitAnd(p_t, mask)

\* C14 witness: in a ring of capacity 4 holding two values, with the write
\* cursor already wrapped past the end of the cursor range, the producer is
\* about to write a slot while the consumer is about to read one.
C14_Witness ==
    /\ Live /\ size = 4
    /\ ppc = "write_slot" /\ cpc = "read_slot"
    /\ Len(pending) = 2 /\ tail < head

\* C15 - frame conditions.  No step of a push changes head; no step of a pop
\* changes tail or a slot; a push that returns 0 leaves tail one further than
\* it was and a push that returns -1 leaves it alone, and the same for pop
\* and head; size and mask do not change while the ring lives.
C15_Frame ==
    [][ /\ ppc' # ppc => head' = head
        /\ cpc' # cpc => (tail' = tail /\ buf' = buf)
        /\ (ppc # "idle" /\ ppc' = "idle") =>
               tail' = IF pres' = RetOk THEN Add32(tail, 1) ELSE tail
        /\ (ppc' # ppc /\ ppc' # "idle") => tail' = tail
        /\ (cpc # "idle" /\ cpc' = "idle") =>
               head' = IF cres' = RetOk THEN Add32(head, 1) ELSE head
        /\ (cpc' # cpc /\ cpc' # "idle") => head' = head
        /\ (Live /\ Live') => (size' = size /\ mask' = mask) ]_vars

\* C15 witness: both a push and a pop have returned 0 on a ring of capacity
\* 4 whose size and mask are what init set, and both cursors have moved.
C15_Witness ==
    /\ Live /\ size = 4 /\ mask = 3 /\ Quiescent
    /\ pres = RetOk /\ cres = RetOk
    /\ head = 2 /\ tail = 4

\* C16 - write-before-publish.  In every state each cursor position from
\* head up to tail holds, in its slot, the value accepted by the push that
\* published that position: the i-th oldest unpopped value is in the slot of
\* position head + i.
C16_WriteBeforePublish ==
    Live =>
        /\ Len(pending) = Occupancy
        /\ \A i \in 0 .. Len(pending) - 1 : buf[PendingSlot(i)] = pending[i + 1]

\* C16 witness: a ring of capacity 4 holds three values, not all equal, the
\* newest just published, and the consumer is about to read the oldest.
C16_Witness ==
    /\ Live /\ size = 4
    /\ Len(pending) = 3 /\ pending[1] # pending[3]
    /\ ppc = "idle" /\ pres = RetOk
    /\ cpc = "read_slot"

(* ------------------------------ progress --------------------------------- *)

\* The producer keeps calling push and the consumer keeps calling pop, and
\* each thread that can take a step eventually takes one.
FairSpec == Init /\ [][Next]_vars /\ WF_vars(Producer) /\ WF_vars(Consumer)

\* C17 - recovery and progress under retry.  For every ring init returns,
\* under fair scheduling of a producer that retries and a consumer that keeps
\* popping, while both threads run: after a push has returned -1 a later
\* push returns 0, and every position published by the producer is
\* eventually reached by head, that is, its value is popped.
C17_RetryProgress ==
    /\ (Live /\ mpc = "running" /\ ppc = "idle" /\ pres = RetFail)
           ~> (pres = RetOk \/ mpc # "running")
    /\ \A k \in 0 .. Word - 1 :
           (Live /\ mpc = "running" /\ tail = k) ~> (head = k \/ mpc # "running")

\* What the code does instead of C17: the same, for rings of capacity 2 or
\* more only.
C17_RetryProgressFromTwo ==
    /\ (Live /\ size >= 2 /\ mpc = "running" /\ ppc = "idle" /\ pres = RetFail)
           ~> (pres = RetOk \/ mpc # "running")
    /\ \A k \in 0 .. Word - 1 :
           (Live /\ size >= 2 /\ mpc = "running" /\ tail = k)
               ~> (head = k \/ mpc # "running")

(* --------------------------- test, then act ------------------------------ *)

\* C18 - check-then-act stability.  From the producer's observation of
\* not-full until its own store of tail the ring stays not full and tail
\* stays what the producer loaded; from the consumer's observation of
\* not-empty until its own store of head the ring stays non-empty and head
\* stays what the consumer loaded.
C18_CheckThenAct ==
    Live =>
        /\ ppc \in {"load_tail", "write_slot", "store_tail"} =>
               (~IsFull /\ Occupancy <= size - 2)
        /\ ppc \in {"write_slot", "store_tail"} => p_t = tail
        /\ cpc \in {"read_slot", "store_head"} =>
               (~IsEmpty /\ Occupancy >= 1 /\ c_h = head)

\* C18 witness: the producer observed not-full and the consumer observed
\* not-empty on a ring of capacity 4, which holds one value; both stand just
\* before their cursor stores.
C18_Witness ==
    /\ Live /\ size = 4
    /\ ppc = "store_tail" /\ cpc = "store_head"
    /\ Len(pending) = 1

\* C19 - no spurious failure.  When the fullness check of a push reads head
\* the ring holds tail - head values and the push keeps that head; tail
\* stays put while the push stands between its two loads; and the push
\* returns -1 only if that count was size - 1.  A pop returns -1 only if the
\* ring holds no value at the step on which its emptiness check reads tail.
C19_NoSpuriousFailure ==
    [][ /\ (ppc = "full_load_head" /\ ppc' = "full_load_tail") =>
               (p_h' = head /\ Len(pending) = Sub32(tail, head))
        /\ (ppc = "full_load_tail" /\ ppc' = "full_load_tail") => tail' = tail
        /\ (ppc = "full_load_tail" /\ ppc' = "idle") =>
               (pres' = RetFail /\ Sub32(tail, p_h) = size - 1)
        /\ (ppc \notin {"idle", "full_load_tail"} /\ ppc' = "idle") => pres' = RetOk
        /\ (cpc = "empty_load_tail" /\ cpc' = "idle") =>
               (cres' = RetFail /\ pending = <<>> /\ head = tail)
        /\ (cpc \notin {"idle", "empty_load_tail"} /\ cpc' = "idle") => cres' = RetOk ]_vars

\* C19 witness: a push on a ring of capacity 4 is about to return -1 for the
\* head it read when the ring held three values, although the consumer has
\* popped one since.
C19_Witness ==
    /\ Live /\ size = 4
    /\ ppc = "full_load_tail" /\ spsc_ring_is_full(p_h, tail)
    /\ head # p_h /\ Len(pending) = 2

(* ---------------------------- cursor overflow ---------------------------- *)

\* The ring is coherent: the capacity divides the cursor range, the cursors
\* are at most size - 1 apart, as many values are unpopped as they are
\* apart, empty and full are what is_empty and is_full report, and the
\* unpopped values lie in their slots in order.
WrapSafe ==
    /\ size > 0 /\ Word % size = 0
    /\ Occupancy \in 0 .. size - 1
    /\ Len(pending) = Occupancy
    /\ IsEmpty <=> pending = <<>>
    /\ IsFull <=> Len(pending) = size - 1
    /\ \A i \in 0 .. Len(pending) - 1 : buf[PendingSlot(i)] = pending[i + 1]
    /\ (cpc = "store_head" /\ c_out # NULL) => out = Head(pending)

\* C20 - cursor overflow is harmless.  After every step on which a cursor
\* of the live ring wraps to a smaller value, and after every step into a
\* state where tail has wrapped and head has not, the ring is coherent.
C20_WrapHarmless ==
    [][ (Live' /\ (tail' < tail \/ head' < head \/ tail' < head')) => WrapSafe' ]_vars

\* C20 witness: a full ring of capacity 4 whose head is the largest cursor
\* value and whose tail has wrapped past 0.
C20_Witness ==
    /\ Live /\ size = 4
    /\ head = Word - 1 /\ tail = 2
    /\ Len(pending) = 3 /\ IsFull

====
